---- MODULE Spec2Model ----
(***************************************************************************)
(* OCI Horizon: the CSV-to-inventory aggregation of src/App.tsx            *)
(* (processCSVData), the React state wiring around it (file upload, sample *)
(* load, the asynchronous analysis run, the email preview) and what        *)
(* Dashboard derives from the state (top SKUs, Live Signals, statistics).  *)
(*                                                                         *)
(* Strings are sequences of symbols.  A symbol is one character (" ", "-", *)
(* a digit) or an opaque word without blanks or hyphens ("B1", "Compute",  *)
(* "constructor"); indexOf, substring and trim work on symbols as the      *)
(* JavaScript functions work on characters.  Numbers are records so that   *)
(* Infinity and NaN, which parseFloat and + can produce, are values of the *)
(* model; fractions and rounding are not modelled (cells hold integers).   *)
(***************************************************************************)
EXTENDS Integers, Sequences, FiniteSets, Bags, TLC

(***************************************************************************)
(* Bounds of the model.                                                    *)
(***************************************************************************)
MaxRows == 3
\* parse jobs, analysis runs, email previews and idle timers pending at the
\* same time
MaxPending == 2
\* clicks on the theme button between two loads of the page, and reloads
MaxToggles == 6
MaxReloads == 3
\* SKUs of a file large enough for summarizeAndMatch to leave some out
MaxSkus == 11

(***************************************************************************)
(* Column positions and lengths fixed by processCSVData (0-based, as in    *)
(* the source).                                                            *)
(***************************************************************************)
HeaderCol == 0
DescCol == 2
UnitCol == 3
UsageCol == 4
CostCol == 8
MinCells == 9
SepLen == 3

HeaderSentinel == <<"Subscription Plan Number">>
Sep == <<" ", "-", " ">>

(***************************************************************************)
(* JavaScript values.                                                      *)
(***************************************************************************)
\* row[i] beyond the end of the array: a value no cell of a parsed file has.
Undefined == <<"\\undefined">>

Fin(n) == [k |-> "fin", v |-> n]
PosInf == [k |-> "inf", v |-> 1]
NegInf == [k |-> "inf", v |-> -1]
NaN == [k |-> "nan", v |-> 0]
Zero == Fin(0)

\* IEEE-754 addition on integers, the infinities and NaN.
Add(a, b) ==
  IF a.k = "nan" \/ b.k = "nan" THEN NaN
  ELSE IF a.k = "inf" /\ b.k = "inf" THEN (IF a.v = b.v THEN a ELSE NaN)
  ELSE IF a.k = "inf" THEN a
  ELSE IF b.k = "inf" THEN b
  ELSE Fin(a.v + b.v)

Neg(a) == IF a.k = "nan" THEN NaN ELSE [k |-> a.k, v |-> 0 - a.v]

(***************************************************************************)
(* String functions used by processCSVData.                                *)
(***************************************************************************)
IsSpace(c) == c = " "

RECURSIVE TrimStart(_)
TrimStart(s) ==
  IF s # <<>> /\ IsSpace(Head(s)) THEN TrimStart(Tail(s)) ELSE s

RECURSIVE TrimEnd(_)
TrimEnd(s) ==
  IF s # <<>> /\ IsSpace(s[Len(s)]) THEN TrimEnd(SubSeq(s, 1, Len(s) - 1)) ELSE s

\* String.prototype.trim
Trim(s) == TrimEnd(TrimStart(s))

\* s.substring(from, to) for 0 <= from <= to, both clamped to the length.
Substring(s, from, to) ==
  LET hi == IF to > Len(s) THEN Len(s) ELSE to
  IN  SubSeq(s, from + 1, hi)

\* s.substring(from)
SubstringFrom(s, from) == Substring(s, from, Len(s))

RECURSIVE IndexFrom(_, _, _)
IndexFrom(s, pat, i) ==
  IF i + Len(pat) > Len(s) THEN -1
  ELSE IF SubSeq(s, i + 1, i + Len(pat)) = pat THEN i
  ELSE IndexFrom(s, pat, i + 1)

RECURSIVE LastIndexFrom(_, _, _)
LastIndexFrom(s, pat, i) ==
  IF i < 0 THEN -1
  ELSE IF SubSeq(s, i + 1, i + Len(pat)) = pat THEN i
  ELSE LastIndexFrom(s, pat, i - 1)

\* lastIndexOf in the place of indexOf: the last occurrence
LastIndexOf(s, pat) == LastIndexFrom(s, pat, Len(s) - Len(pat))

\* s.indexOf(pat): 0-based position of the first occurrence, or -1.
IndexOf(s, pat) == IndexFrom(s, pat, 0)

Digits == <<"0", "1", "2", "3", "4", "5", "6", "7", "8", "9">>
IsDigit(c) == \E i \in 1..Len(Digits) : Digits[i] = c
DigitVal(c) == (CHOOSE i \in 1..Len(Digits) : Digits[i] = c) - 1

RECURSIVE DigitRun(_)
\* the longest prefix of s made of digits
DigitRun(s) ==
  IF s # <<>> /\ IsDigit(Head(s)) THEN <<Head(s)>> \o DigitRun(Tail(s)) ELSE <<>>

RECURSIVE DecimalValue(_)
DecimalValue(ds) ==
  IF ds = <<>> THEN 0
  ELSE 10 * DecimalValue(SubSeq(ds, 1, Len(ds) - 1)) + DigitVal(ds[Len(ds)])

\* parseFloat on an unsigned literal: "Infinity", or a run of digits; any
\* text after the literal is ignored, and no literal at all gives NaN.
ParseUnsigned(s) ==
  IF s # <<>> /\ Head(s) = "Infinity" THEN PosInf
  ELSE IF DigitRun(s) = <<>> THEN NaN
  ELSE Fin(DecimalValue(DigitRun(s)))

\* parseFloat(cell): leading blanks are skipped, then an optional sign.
parseFloat(cell) ==
  IF cell = Undefined THEN NaN
  ELSE LET t == TrimStart(cell)
       IN  IF t # <<>> /\ Head(t) = "-" THEN Neg(ParseUnsigned(Tail(t)))
           ELSE IF t # <<>> /\ Head(t) = "+" THEN ParseUnsigned(Tail(t))
           ELSE ParseUnsigned(t)

\* parseFloat(cell) || 0 : NaN and 0 are falsy
ParseOrZero(cell) ==
  LET n == parseFloat(cell)
  IN  IF n.k = "nan" THEN Zero ELSE n

(***************************************************************************)
(* The fold of processCSVData.  skuMap is the object literal {} : its own  *)
(* properties are kept as a sequence of items in creation order, and a     *)
(* lookup skuMap[skuId] also finds what {} inherits from Object.prototype. *)
(***************************************************************************)
\* names every object inherits; each of these values is truthy
ObjectPrototypeKeys ==
  { <<"constructor">>, <<"toString">>, <<"valueOf">>, <<"hasOwnProperty">>,
    <<"isPrototypeOf">>, <<"propertyIsEnumerable">>, <<"toLocaleString">>,
    <<"__proto__">>, <<"__defineGetter__">>, <<"__defineSetter__">>,
    <<"__lookupGetter__">>, <<"__lookupSetter__">> }

\* row[i], 0-based
Cell(row, i) == IF i < Len(row) THEN row[i + 1] ELSE Undefined

\* !value for a cell
Falsy(cell) == cell = Undefined \/ cell = <<>>

HasOwn(skuMap, skuId) == \E i \in 1..Len(skuMap) : skuMap[i].sku = skuId

\* the condition  if (skuMap[skuId])
Truthy(skuMap, skuId) == HasOwn(skuMap, skuId) \/ skuId \in ObjectPrototypeKeys

\* the length check off by one: rows of 8 cells pass
TooShort_OffByOne(row) == Len(row) < MinCells - 1

\* if (!row || row.length < 9) return;  (PapaParse rows are always arrays)
TooShort(row) == Len(row) < MinCells

firstDash(fullSkuString) == IndexOf(fullSkuString, Sep)

skuIdOf(fullSkuString) ==
  IF firstDash(fullSkuString) # -1
  THEN Trim(Substring(fullSkuString, 0, firstDash(fullSkuString)))
  ELSE Trim(fullSkuString)

productNameOf(fullSkuString) ==
  IF firstDash(fullSkuString) # -1
  THEN Trim(SubstringFrom(fullSkuString, firstDash(fullSkuString) + SepLen))
  ELSE Trim(fullSkuString)

\* the rows the forEach body does not return early from
Processed(row) == ~TooShort(row) /\ ~Falsy(Cell(row, DescCol))

NewItem(row) ==
  [ sku |-> skuIdOf(Cell(row, DescCol)),
    productName |-> productNameOf(Cell(row, DescCol)),
    unit |-> Cell(row, UnitCol),
    usageAmount |-> ParseOrZero(Cell(row, UsageCol)),
    cost |-> ParseOrZero(Cell(row, CostCol)) ]

\* the row's values taken off the item instead of added
Accumulate_Subtract(item, row) ==
  [ item EXCEPT !.usageAmount = Add(@, Neg(ParseOrZero(Cell(row, UsageCol)))),
                !.cost = Add(@, Neg(ParseOrZero(Cell(row, CostCol)))) ]

\* skuMap[skuId].usageAmount += usage; skuMap[skuId].cost += cost
Accumulate(item, row) ==
  [ item EXCEPT !.usageAmount = Add(@, ParseOrZero(Cell(row, UsageCol))),
                !.cost = Add(@, ParseOrZero(Cell(row, CostCol))) ]

\* one iteration of rows.forEach
FoldRow(skuMap, row) ==
  IF ~Processed(row) THEN skuMap
  ELSE LET skuId == skuIdOf(Cell(row, DescCol))
       IN  IF HasOwn(skuMap, skuId)
           THEN [ i \in 1..Len(skuMap) |->
                    IF skuMap[i].sku = skuId THEN Accumulate(skuMap[i], row)
                    ELSE skuMap[i] ]
           ELSE IF Truthy(skuMap, skuId)
           THEN skuMap   \* += lands on the inherited object, not on skuMap
           ELSE Append(skuMap, NewItem(row))

RECURSIVE FoldRows(_, _)
FoldRows(skuMap, rows) ==
  IF rows = <<>> THEN skuMap
  ELSE FoldRows(FoldRow(skuMap, Head(rows)), Tail(rows))

\* every row that starts with the sentinel dropped, not only the first
StripHeader_EveryHeader(data) ==
  SelectSeq(data, LAMBDA row : Cell(row, HeaderCol) # HeaderSentinel)

\* data[0][0] === "Subscription Plan Number" ? data.slice(1) : data
StripHeader(data) ==
  IF Cell(data[1], HeaderCol) = HeaderSentinel THEN Tail(data) ELSE data

\* the inherited objects a run writes usageAmount and cost onto
InheritedHits(rows) ==
  { skuIdOf(Cell(rows[i], DescCol)) :
      i \in { j \in 1..Len(rows) : Processed(rows[j]) } } \cap ObjectPrototypeKeys

(***************************************************************************)
(* Object.values(skuMap).sort((a, b) => b.cost - a.cost)                   *)
(***************************************************************************)
\* a key that is a canonical array index: digits only, no leading zero
IsArrayIndex(sku) ==
  /\ sku # <<>>
  /\ \A i \in 1..Len(sku) : IsDigit(sku[i])
  /\ (Len(sku) > 1 => sku[1] # "0")

RECURSIVE InsertIndexKey(_, _)
InsertIndexKey(items, x) ==
  IF items = <<>> THEN <<x>>
  ELSE IF DecimalValue(items[Len(items)].sku) > DecimalValue(x.sku)
  THEN Append(InsertIndexKey(SubSeq(items, 1, Len(items) - 1), x), items[Len(items)])
  ELSE Append(items, x)

RECURSIVE IndexKeysAscending(_)
IndexKeysAscending(items) ==
  IF items = <<>> THEN <<>>
  ELSE InsertIndexKey(IndexKeysAscending(SubSeq(items, 1, Len(items) - 1)),
                      items[Len(items)])

\* own property order: array-index keys ascending, then the others as created
ObjectValues(skuMap) ==
  IndexKeysAscending(SelectSeq(skuMap, LAMBDA it : IsArrayIndex(it.sku)))
    \o SelectSeq(skuMap, LAMBDA it : ~IsArrayIndex(it.sku))

\* the comparator (a, b) => b.cost - a.cost returns a value > 0
\* (a NaN result counts as 0)
ComparePositive(a, b) ==
  LET d == Add(b.cost, Neg(a.cost))
  IN  d.k # "nan" /\ d.v > 0

RECURSIVE InsertByCost(_, _)
InsertByCost(items, x) ==
  IF items = <<>> THEN <<x>>
  ELSE IF ComparePositive(items[Len(items)], x)
  THEN Append(InsertByCost(SubSeq(items, 1, Len(items) - 1), x), items[Len(items)])
  ELSE Append(items, x)

RECURSIVE SortByCost(_)
\* Array.prototype.sort is stable; modelled as an insertion sort
SortByCost(items) ==
  IF items = <<>> THEN <<>>
  ELSE InsertByCost(SortByCost(SubSeq(items, 1, Len(items) - 1)), items[Len(items)])

\* aggregatedData of processCSVData for a non-empty results.data
aggregatedData(data) ==
  SortByCost(ObjectValues(FoldRows(<<>>, StripHeader(data))))

(***************************************************************************)
(* Inputs.  A parsed file is a sequence of at most MaxRows rows.           *)
(***************************************************************************)
Row9(first, desc, unit, usage, cost) ==
  <<first, <<>>, desc, unit, usage, <<>>, <<>>, <<>>, cost>>

\* the export's header line; processed as data it is a valid row
HeaderRow == Row9(HeaderSentinel, <<"Product">>, <<"Unit">>, <<"Quantity">>, <<"Amount">>)
\* a blank line, as PapaParse delivers it
BlankRow == << <<>> >>
\* one cell short of MinCells
EightCells == << <<>>, <<>>, <<"B1", " ", "-", " ", "Compute">>, <<"OCPU">>, <<"1">>, <<>>, <<>>, <<>> >>

RowPool ==
  { HeaderRow, BlankRow, EightCells,
    Row9(<<>>, <<"B1", " ", "-", " ", "Compute", " ", "-", " ", "E4">>, <<"OCPU">>, <<"1">>, <<"2">>),
    Row9(<<>>, <<" ", "B1", " ", " ", "-", " ", "Storage", " ">>, <<"GB">>, <<"2">>, <<"3">>)
      \o << <<"extra">> >>,
    Row9(<<>>, <<"7">>, <<"GB">>, <<"1", "0">>, <<"2">>),
    Row9(<<>>, <<"constructor", " ", "-", " ", "Build">>, <<"GB">>, <<"n/a">>, <<"1">>),
    Row9(<<>>, <<" ", " ">>, <<"GB">>, <<"1">>, <<"x">>),
    Row9(<<>>, <<>>, <<"GB">>, <<"1">>, <<"1">>),
    Row9(<<>>, <<" ", "-", " ", "Net">>, <<"GB">>, <<" ", "4", "k">>, <<"+", "1">>),
    Row9(<<>>, <<"B1", " ", "-", " ", "Compute">>, <<"OCPU">>, <<"abc">>, <<"4">>),
    Row9(<<>>, <<"7", " ", "-", " ", "Tape">>, <<"TB">>, <<"-", "2">>, <<"Infinity">>),
    Row9(<<>>, <<"7">>, <<"GB">>, <<>>, <<"-", "Infinity">>) }

RECURSIVE SeqsUpTo(_, _)
\* the sequences over S of length at most n
SeqsUpTo(S, n) ==
  IF n = 0 THEN { <<>> }
  ELSE LET shorter == SeqsUpTo(S, n - 1)
       IN  shorter \cup { Append(q, x) : q \in shorter, x \in S }

DataPool == SeqsUpTo(RowPool, MaxRows)

\* Files with one row per SKU, for inventories longer than the prompts take.
CostCells == { <<"1">>, <<"2">> }

SkuName(k) ==
  IF k < 10 THEN <<"S", Digits[k + 1]>>
  ELSE <<"S", Digits[(k \div 10) + 1], Digits[(k % 10) + 1]>>

SkuRow(k, cost) == Row9(<<>>, SkuName(k), <<"GB">>, <<"1">>, cost)

RECURSIVE SkuFiles(_)
\* the files of n rows whose row k is for SKU k
SkuFiles(n) ==
  IF n = 0 THEN { <<>> }
  ELSE { Append(f, SkuRow(n, c)) : f \in SkuFiles(n - 1), c \in CostCells }

\* f with two rows for one more SKU after its row j, with the amounts
\* Infinity and -Infinity
WithOffsettingRows(f, j) ==
  SubSeq(f, 1, j)
    \o << SkuRow(0, <<"Infinity">>), SkuRow(0, <<"-", "Infinity">>) >>
    \o SubSeq(f, j + 1, Len(f))

MatchPool ==
  UNION { SkuFiles(n) : n \in 1..MaxSkus }
    \cup { WithOffsettingRows(f, j) : f \in SkuFiles(MaxSkus - 1), j \in 0..(MaxSkus - 1) }

\* the files the application model uploads repeatedly
FilePool ==
  { <<>>,
    << BlankRow >>,
    << HeaderRow, Row9(<<>>, <<"B1", " ", "-", " ", "Compute">>, <<"OCPU">>, <<"abc">>, <<"4">>) >> }

(***************************************************************************)
(* Release notes and insights, as far as the state wiring looks at them.   *)
(***************************************************************************)
MOCK_RELEASES ==
  << [id |-> <<"1">>, date |-> 20240522, matchScore |-> 100, isRelevant |-> TRUE] >>

SAMPLE_DATA ==
  << [sku |-> <<"B91214">>, productName |-> <<"Compute", " ", "-", " ", "Standard">>,
      unit |-> <<"OCPU/Hour">>, usageAmount |-> Fin(450), cost |-> Fin(1250)],
     [sku |-> <<"B88317">>, productName |-> <<"Block", " ", "Storage">>,
      unit |-> <<"GB/Month">>, usageAmount |-> Fin(5000), cost |-> Fin(840)],
     [sku |-> <<"B92322">>, productName |-> <<"Object", " ", "Storage">>,
      unit |-> <<"GB/Month">>, usageAmount |-> Fin(12000), cost |-> Fin(315)],
     [sku |-> <<"B93111">>, productName |-> <<"Network">>,
      unit |-> <<"GB/Month">>, usageAmount |-> Fin(2500), cost |-> Fin(120)] >>

\* isRelevant: res.matchScore > 50
RelevanceThreshold == 50

\* what the structuring call may answer: JSON arrays of matched notes, in the
\* order the model wrote them.  The response schema goes out with the request
\* and is not checked on the answer, so a note may lack its matchScore or
\* carry fields of its own.
StructResponses ==
  { <<>>,
    << [date |-> 20240601, matchScore |-> 80],
       [date |-> 20240520, matchScore |-> 50],
       [date |-> 20240610, matchScore |-> 60],
       [date |-> 20240612],
       [date |-> 20240614, matchScore |-> 10, isRelevant |-> TRUE],
       [date |-> 20240615, matchScore |-> 70],
       [date |-> 20240620, matchScore |-> 90] >> }

\* note.matchScore > n, and (note.matchScore || 0) > n for n >= 0: false for
\* a note without matchScore
ScoreAbove(note, n) == "matchScore" \in DOMAIN note /\ note.matchScore > n

\* relevance granted from the threshold on, not above it
LiveNotes_AtLeast(results) ==
  [ i \in 1..Len(results) |->
      [isRelevant |-> ScoreAbove(results[i], RelevanceThreshold - 1)]
        @@ results[i] @@ [id |-> <<"live", i - 1>>] ]

\* results.map((res, idx) => ({ id: `live-${idx}-...`, ...res, isRelevant: res.matchScore > 50 }))
\* a later field of the object literal overrides an earlier one
LiveNotes(results) ==
  [ i \in 1..Len(results) |->
      [isRelevant |-> ScoreAbove(results[i], RelevanceThreshold)]
        @@ results[i] @@ [id |-> <<"live", i - 1>>] ]

\* what the insights call may answer
InsightResponses == { <<>>, <<"cost">> }

\* const [generatedEmail, setGeneratedEmail] = useState<string | null>(null)
NoEmail == "null"

\* the customerName handleSendTestPreview passes
CustomerName == "Cloud Enterprise Lead"

\* the prompt generateEmailDigest sends: `... for ${customerName} based on
\* these insights: ${JSON.stringify(insights.map(i => i.title))}`; an insight
\* of the model is its title
EmailPrompt(relevantNotes, customerName, ins) ==
  [customer |-> customerName, titles |-> ins]

\* what generateEmailDigest resolves with: always a string, the answer or
\* "Synthesis failed." for an empty answer or "Email generation error." after
\* a throw.  handleSendTestPreview stores all three alike, and the model keeps
\* them as one value.
EmailResults(req) == { "text" }

\* const topSkus = skus.slice(0, 10)
MatchCount == 10

\* the SKUs summarizeAndMatch builds its two prompts from
topSkus(skus) == SubSeq(skus, 1, IF Len(skus) < MatchCount THEN Len(skus) ELSE MatchCount)

(***************************************************************************)
(* What Dashboard derives from its props.                                  *)
(***************************************************************************)
TopCount == 5
SignalCount == 3

\* s.slice(0, n)
Take(s, n) == SubSeq(s, 1, IF Len(s) < n THEN Len(s) ELSE n)

\* [...consumption].sort((a, b) => b.cost - a.cost).slice(0, 5)
topSKUs(consumption) == Take(SortByCost(consumption), TopCount)

\* notes.filter(n => n.isRelevant)
RelevantNotes(notes) == SelectSeq(notes, LAMBDA n : n.isRelevant)

\* the notes of the Live Signals list: notes.filter(n => n.isRelevant).slice(0, 3)
LiveSignals(notes) == Take(RelevantNotes(notes), SignalCount)

\* the notes the 'Roadmap Matches' statistic counts:
\* notes.filter(n => (n.matchScore || 0) > 50)
RoadmapMatches(notes) == SelectSeq(notes, LAMBDA n : ScoreAbove(n, 50))

(***************************************************************************)
(* The theme.                                                              *)
(***************************************************************************)
\* what localStorage may hold under 'horizon-theme' when the page is opened:
\* nothing ("null"), a value the effect wrote, or a value of another origin
SavedPool == { "null", "", "dark", "light", "blue" }

\* saved ? saved === 'dark' : window.matchMedia('(prefers-color-scheme: dark)').matches
InitialMode(saved, prefers) ==
  IF saved = "null" \/ saved = "" THEN prefers ELSE saved = "dark"

\* the effect stores 'dark' whatever the mode
ThemeStored_AlwaysDark(isDark) == "dark"

\* the value the effect stores: localStorage.setItem('horizon-theme', ...)
ThemeStored(isDark) == IF isDark THEN "dark" ELSE "light"

(***************************************************************************)
(* The state of App: the fields of AppState that the handlers write, the   *)
(* work in flight, and what the handlers leave outside React.              *)
(***************************************************************************)
VARIABLES
  consumptionData,  \* state.consumptionData
  releaseNotes,     \* state.releaseNotes
  insights,         \* state.insights
  isLoading,        \* state.isLoading
  error,            \* state.error ("null" for null)
  analysisStep,     \* state.analysisStep
  parses,           \* bag of the Papa.parse jobs not yet completed
  runs,             \* bag of the runAnalysisWithData invocations waiting at an await
  timers,           \* pending setTimeout callbacks of completed runs
  emails,           \* bag of the generateEmailDigest calls not yet answered
  generatedEmail,   \* the generatedEmail state of App
  inheritedWrites,  \* inherited objects that got usageAmount and cost written
  lastEvent,        \* history: the handler that ran last, and its input rows
  isDarkMode,       \* the isDarkMode state of App
  storedTheme,      \* localStorage['horizon-theme'] ("null" when absent)
  darkClass,        \* document.documentElement has the class 'dark'
  prefersDark,      \* matchMedia('(prefers-color-scheme: dark)').matches
  loadedFrom,       \* history: what getItem returned when the page was loaded last
  loadedMode,       \* history: the mode the page started in when loaded last
  toggles,          \* history: clicks on the theme button since that load
  reloads           \* history: reloads of the page

appVars == << consumptionData, releaseNotes, insights, isLoading, error,
              analysisStep, parses, runs, timers, emails, generatedEmail,
              inheritedWrites, lastEvent >>

themeVars == << isDarkMode, storedTheme, darkClass, prefersDark, loadedFrom,
                loadedMode, toggles, reloads >>

vars == << appVars, themeVars >>

Event(kind, rows) == [kind |-> kind, rows |-> rows]

\* the bag holding x once: work in flight has no order
One(x) == SetToBag({x})

Pending == BagCardinality(parses) + BagCardinality(runs) + timers + BagCardinality(emails)

\* A run for an empty inventory makes no AI call: summarizeAndMatch and
\* generateInsights return at once and the awaits of runAnalysisWithData
\* resume as microtasks, before any other callback or user event.
Immediate == \E run \in BagToSet(runs) : run.skus = <<>>

\* the theme once App is mounted and its effect has run, for a page opened
\* with saved in localStorage and prefers as the system preference
ThemeLoaded(saved, prefers) ==
  /\ isDarkMode = InitialMode(saved, prefers)
  /\ storedTheme = ThemeStored(InitialMode(saved, prefers))
  /\ darkClass = InitialMode(saved, prefers)
  /\ prefersDark = prefers
  /\ loadedFrom = saved
  /\ loadedMode = InitialMode(saved, prefers)
  /\ toggles = 0
  /\ reloads = 0

\* useState<AppState>({...})
Init ==
  /\ ThemeLoaded("null", FALSE)
  /\ consumptionData = <<>>
  /\ releaseNotes = MOCK_RELEASES
  /\ insights = <<>>
  /\ isLoading = FALSE
  /\ error = "null"
  /\ analysisStep = "idle"
  /\ parses = EmptyBag
  /\ runs = EmptyBag
  /\ timers = 0
  /\ emails = EmptyBag
  /\ generatedEmail = NoEmail
  /\ inheritedWrites = {}
  /\ lastEvent = Event("init", <<>>)

\* runAnalysisWithData up to its first await; currentNotes is state.releaseNotes
\* of the render whose closure makes the call
runAnalysisWithData(skus, currentNotes) ==
  /\ analysisStep' = "searching"
  /\ runs' = runs (+) One([pc |-> "search", skus |-> skus, notes |-> currentNotes])

\* handleFileUpload for a chosen file whose parse will deliver data
handleFileUpload(data) ==
  /\ isLoading' = TRUE
  /\ analysisStep' = "parsing"
  /\ parses' = parses (+) One([data |-> data, notes |-> releaseNotes])
  /\ lastEvent' = Event("upload", <<>>)
  /\ UNCHANGED << emails, generatedEmail, consumptionData, releaseNotes, insights, error, runs, timers,
                  inheritedWrites >>

\* the new items appended to the stored inventory instead of replacing it
processCSVData_Append(job) ==
  IF job.data = <<>>
  THEN /\ lastEvent' = Event("csv", job.data)
       /\ UNCHANGED << emails, generatedEmail, consumptionData, releaseNotes, insights, isLoading, error,
                       analysisStep, runs, timers, inheritedWrites >>
  ELSE /\ consumptionData' = consumptionData \o aggregatedData(job.data)
       /\ isLoading' = FALSE
       /\ runAnalysisWithData(aggregatedData(job.data), job.notes)
       /\ inheritedWrites' = inheritedWrites \cup InheritedHits(StripHeader(job.data))
       /\ lastEvent' = Event("csv", job.data)
       /\ UNCHANGED << emails, generatedEmail, releaseNotes, insights, error, timers >>

\* the analysis started on the new items while the state still holds the
\* inventory of before
processCSVData_AnalysisFirst(job) ==
  IF job.data = <<>>
  THEN /\ lastEvent' = Event("csv", job.data)
       /\ UNCHANGED << emails, generatedEmail, consumptionData, releaseNotes, insights, isLoading, error,
                       analysisStep, runs, timers, inheritedWrites >>
  ELSE /\ isLoading' = FALSE
       /\ runAnalysisWithData(aggregatedData(job.data), job.notes)
       /\ inheritedWrites' = inheritedWrites \cup InheritedHits(StripHeader(job.data))
       /\ lastEvent' = Event("csv", job.data)
       /\ UNCHANGED << emails, generatedEmail, consumptionData, releaseNotes, insights, error, timers >>

\* processCSVData, the `complete` callback of Papa.parse
processCSVData(job) ==
  IF job.data = <<>>
  THEN /\ lastEvent' = Event("csv", job.data)
       /\ UNCHANGED << emails, generatedEmail, consumptionData, releaseNotes, insights, isLoading, error,
                       analysisStep, runs, timers, inheritedWrites >>
  ELSE /\ consumptionData' = aggregatedData(job.data)
       /\ isLoading' = FALSE
       /\ runAnalysisWithData(aggregatedData(job.data), job.notes)
       /\ inheritedWrites' = inheritedWrites \cup InheritedHits(StripHeader(job.data))
       /\ lastEvent' = Event("csv", job.data)
       /\ UNCHANGED << emails, generatedEmail, releaseNotes, insights, error, timers >>

\* the `error` callback of Papa.parse
parseError ==
  /\ isLoading' = FALSE
  /\ error' = "CSV Error"
  /\ lastEvent' = Event("csvError", <<>>)
  /\ UNCHANGED << emails, generatedEmail, consumptionData, releaseNotes, insights, analysisStep, runs,
                  timers, inheritedWrites >>

\* loadSampleData
loadSampleData ==
  /\ consumptionData' = SAMPLE_DATA
  /\ runAnalysisWithData(SAMPLE_DATA, releaseNotes)
  /\ lastEvent' = Event("sample", <<>>)
  /\ UNCHANGED << emails, generatedEmail, releaseNotes, insights, isLoading, error, parses, timers,
                  inheritedWrites >>

\* runAnalysis, the handler of the Refresh Intelligence button
runAnalysis ==
  /\ runAnalysisWithData(consumptionData, releaseNotes)
  /\ lastEvent' = Event("refresh", <<>>)
  /\ UNCHANGED << emails, generatedEmail, consumptionData, releaseNotes, insights, isLoading, error,
                  parses, timers, inheritedWrites >>

\* the notes summarizeAndMatch resolves with when nothing throws: currentNotes
\* without a call for an empty inventory, else the mapped answer
MatchResults(run) ==
  IF run.skus = <<>> THEN { run.notes }
  ELSE { LiveNotes(r) : r \in StructResponses }

\* Step 1 moving on to 'mapping' instead of 'insights'
searchStep_Mapping(run, notes, kind) ==
  /\ releaseNotes' = notes
  /\ analysisStep' = "mapping"
  /\ runs' = (runs (-) One(run)) (+) One([pc |-> "insights", skus |-> run.skus, notes |-> notes])
  /\ lastEvent' = Event(kind, <<>>)
  /\ UNCHANGED << emails, generatedEmail, consumptionData, insights, isLoading, error, parses, timers,
                  inheritedWrites >>

\* Step 1 of runAnalysisWithData for run i once summarizeAndMatch resolved
\* with notes
searchStep(run, notes, kind) ==
  /\ releaseNotes' = notes
  /\ analysisStep' = "insights"
  /\ runs' = (runs (-) One(run)) (+) One([pc |-> "insights", skus |-> run.skus, notes |-> notes])
  /\ lastEvent' = Event(kind, <<>>)
  /\ UNCHANGED << emails, generatedEmail, consumptionData, insights, isLoading, error, parses, timers,
                  inheritedWrites >>

\* handleSendTestPreview up to its await: the arguments of generateEmailDigest
\* are taken from the state of the render that shows the button
handleSendTestPreview ==
  /\ isLoading' = TRUE
  /\ emails' = emails (+) One([notes |-> RelevantNotes(releaseNotes), insights |-> insights])
  /\ lastEvent' = Event("preview", <<>>)
  /\ UNCHANGED << generatedEmail, consumptionData, releaseNotes, insights, error,
                  analysisStep, parses, runs, timers, inheritedWrites >>

\* the insights generateInsights can resolve with
InsightResults(run) ==
  IF run.notes = <<>> \/ run.skus = <<>> THEN { <<>> }
  ELSE { <<>> } \cup InsightResponses

(***************************************************************************)
(* Actions.                                                                *)
(***************************************************************************)
\* the user picks a file
Upload ==
  /\ UNCHANGED themeVars
  /\ ~Immediate
  /\ Pending < MaxPending
  /\ \E data \in FilePool : handleFileUpload(data)

PapaComplete ==
  /\ UNCHANGED themeVars
  /\ ~Immediate
  /\ \E job \in BagToSet(parses) :
    /\ parses' = parses (-) One(job)
    /\ processCSVData(job)

PapaError ==
  /\ UNCHANGED themeVars
  /\ ~Immediate
  /\ \E job \in BagToSet(parses) :
    /\ parses' = parses (-) One(job)
    /\ parseError

\* {state.consumptionData.length === 0 && (<button onClick={loadSampleData} ...
LoadSample ==
  /\ UNCHANGED themeVars
  /\ ~Immediate
  /\ Pending < MaxPending
  /\ consumptionData = <<>>
  /\ loadSampleData

\* disabled={state.consumptionData.length === 0 || state.analysisStep !== 'idle'}
Refresh ==
  /\ UNCHANGED themeVars
  /\ ~Immediate
  /\ Pending < MaxPending
  /\ consumptionData # <<>>
  /\ analysisStep = "idle"
  /\ runAnalysis

\* await summarizeAndMatch(...) resumes: its calls answered, or one of them
\* threw and the catch returned currentNotes
SearchDone ==
  /\ UNCHANGED themeVars
  /\ \E run \in BagToSet(runs) :
    /\ run.pc = "search"
    /\ Immediate => run.skus = <<>>
    /\ \/ \E notes \in MatchResults(run) : searchStep(run, notes, "search")
       \/ /\ run.skus # <<>>
          /\ searchStep(run, run.notes, "searchFailed")

\* the state replaced instead of spread: setState(() => ({ insights, ... }))
InsightsDone_NoSpread ==
  /\ UNCHANGED themeVars
  /\ \E run \in BagToSet(runs) : \E ins \in InsightResults(run) :
    /\ run.pc = "insights"
    /\ Immediate => run.skus = <<>>
    /\ insights' = ins
    /\ analysisStep' = "complete"
    /\ isLoading' = FALSE
    /\ timers' = timers + 1
    /\ runs' = runs (-) One(run)
    /\ lastEvent' = Event("insights", <<>>)
    /\ consumptionData' = <<>>
    /\ UNCHANGED << emails, generatedEmail, releaseNotes, error, parses, inheritedWrites >>

\* await generateInsights(...) resumes: Step 2 of runAnalysisWithData
InsightsDone ==
  /\ UNCHANGED themeVars
  /\ \E run \in BagToSet(runs) : \E ins \in InsightResults(run) :
    /\ run.pc = "insights"
    /\ Immediate => run.skus = <<>>
    /\ insights' = ins
    /\ analysisStep' = "complete"
    /\ isLoading' = FALSE
    /\ timers' = timers + 1
    /\ runs' = runs (-) One(run)
    /\ lastEvent' = Event("insights", <<>>)
    /\ UNCHANGED << emails, generatedEmail, consumptionData, releaseNotes, error, parses, inheritedWrites >>

\* setTimeout(() => setState(prev => ({ ...prev, analysisStep: 'idle' })), 3000)
IdleTimer ==
  /\ UNCHANGED themeVars
  /\ ~Immediate
  /\ timers > 0
  /\ timers' = timers - 1
  /\ analysisStep' = "idle"
  /\ lastEvent' = Event("timer", <<>>)
  /\ UNCHANGED << emails, generatedEmail, consumptionData, releaseNotes, insights, isLoading, error,
                  parses, runs, inheritedWrites >>

\* the Synthesize Executive Preview button
Preview ==
  /\ UNCHANGED themeVars
  /\ ~Immediate
  /\ Pending < MaxPending
  /\ handleSendTestPreview

\* await generateEmailDigest(...) resumes; the finally block clears isLoading
EmailDone ==
  /\ UNCHANGED themeVars
  /\ ~Immediate
  /\ \E req \in BagToSet(emails) : \E email \in EmailResults(req) :
    /\ generatedEmail' = email
    /\ isLoading' = FALSE
    /\ emails' = emails (-) One(req)
    /\ lastEvent' = Event("email", <<>>)
    /\ UNCHANGED << consumptionData, releaseNotes, insights, error, analysisStep,
                    parses, runs, timers, inheritedWrites >>

\* Dashboard renders with consumption = state.consumptionData: topSKUs sorts
\* the copy [...consumption], so the prop and the state keep their order
DashboardRender ==
  /\ UNCHANGED themeVars
  /\ consumptionData' = consumptionData
  /\ UNCHANGED << releaseNotes, insights, isLoading, error, analysisStep, parses,
                  runs, timers, emails, generatedEmail, inheritedWrites, lastEvent >>

Next ==
  \/ Upload
  \/ PapaComplete
  \/ PapaError
  \/ LoadSample
  \/ Refresh
  \/ SearchDone
  \/ InsightsDone
  \/ IdleTimer
  \/ Preview
  \/ EmailDone
  \/ DashboardRender

Spec == Init /\ [][Next]_vars

(***************************************************************************)
(* One thing at a time: the user starts an upload, an analysis or a        *)
(* preview only when no parse, AI call or timer is pending.                *)
(***************************************************************************)
UploadAlone == Pending = 0 /\ Upload

LoadSampleAlone == Pending = 0 /\ LoadSample

RefreshAlone == Pending = 0 /\ Refresh

PreviewAlone == Pending = 0 /\ Preview

NextSingle ==
  \/ UploadAlone
  \/ PapaComplete
  \/ PapaError
  \/ LoadSampleAlone
  \/ RefreshAlone
  \/ SearchDone
  \/ InsightsDone
  \/ IdleTimer
  \/ PreviewAlone
  \/ EmailDone

SpecSingle == Init /\ [][NextSingle]_vars

(***************************************************************************)
(* The theme on its own: App opened with any stored value and any system   *)
(* preference, then theme clicks, reloads and changes of the preference.   *)
(***************************************************************************)
InitTheme ==
  /\ \E saved \in SavedPool : \E prefers \in BOOLEAN : ThemeLoaded(saved, prefers)
  /\ consumptionData = <<>>
  /\ releaseNotes = MOCK_RELEASES
  /\ insights = <<>>
  /\ isLoading = FALSE
  /\ error = "null"
  /\ analysisStep = "idle"
  /\ parses = EmptyBag
  /\ runs = EmptyBag
  /\ timers = 0
  /\ emails = EmptyBag
  /\ generatedEmail = NoEmail
  /\ inheritedWrites = {}
  /\ lastEvent = Event("init", <<>>)

\* toggleDarkMode, the render it causes and the effect on [isDarkMode]
ToggleDarkMode ==
  /\ toggles < MaxToggles
  /\ isDarkMode' = ~isDarkMode
  /\ darkClass' = ~isDarkMode
  /\ storedTheme' = ThemeStored(~isDarkMode)
  /\ toggles' = toggles + 1
  /\ UNCHANGED << prefersDark, loadedFrom, loadedMode, reloads >>
  /\ UNCHANGED appVars

\* the page is loaded again: the initializer of isDarkMode reads the stored
\* value, the effect runs after the first render; the App state starts anew
Reload ==
  /\ reloads < MaxReloads
  /\ isDarkMode' = InitialMode(storedTheme, prefersDark)
  /\ darkClass' = InitialMode(storedTheme, prefersDark)
  /\ storedTheme' = ThemeStored(InitialMode(storedTheme, prefersDark))
  /\ loadedFrom' = storedTheme
  /\ loadedMode' = InitialMode(storedTheme, prefersDark)
  /\ toggles' = 0
  /\ reloads' = reloads + 1
  /\ UNCHANGED << prefersDark, appVars >>

\* the system preference changes; App registers no listener for it
PreferenceChange ==
  /\ prefersDark' = ~prefersDark
  /\ UNCHANGED << isDarkMode, storedTheme, darkClass, loadedFrom, loadedMode,
                  toggles, reloads >>
  /\ UNCHANGED appVars

NextTheme ==
  \/ ToggleDarkMode
  \/ Reload
  \/ PreferenceChange

SpecTheme == InitTheme /\ [][NextTheme]_vars

(***************************************************************************)
(* The aggregation on its own: App right after handleFileUpload was called *)
(* once, for any file of DataPool, until Papa.parse calls back.            *)
(***************************************************************************)
InitCSV ==
  /\ ThemeLoaded("null", FALSE)
  /\ consumptionData = <<>>
  /\ releaseNotes = MOCK_RELEASES
  /\ insights = <<>>
  /\ isLoading = TRUE
  /\ error = "null"
  /\ analysisStep = "parsing"
  /\ parses \in { One([data |-> d, notes |-> MOCK_RELEASES]) : d \in DataPool }
  /\ runs = EmptyBag
  /\ timers = 0
  /\ emails = EmptyBag
  /\ generatedEmail = NoEmail
  /\ inheritedWrites = {}
  /\ lastEvent = Event("init", <<>>)

NextCSV ==
  \/ PapaComplete
  \/ PapaError

SpecCSV == InitCSV /\ [][NextCSV]_vars

(***************************************************************************)
(* The analysis of a large inventory: App right after handleFileUpload was *)
(* called once for a file of MatchPool, until Papa.parse calls back.       *)
(***************************************************************************)
InitMatch ==
  /\ ThemeLoaded("null", FALSE)
  /\ consumptionData = <<>>
  /\ releaseNotes = MOCK_RELEASES
  /\ insights = <<>>
  /\ isLoading = TRUE
  /\ error = "null"
  /\ analysisStep = "parsing"
  /\ parses \in { One([data |-> d, notes |-> MOCK_RELEASES]) : d \in MatchPool }
  /\ runs = EmptyBag
  /\ timers = 0
  /\ emails = EmptyBag
  /\ generatedEmail = NoEmail
  /\ inheritedWrites = {}
  /\ lastEvent = Event("init", <<>>)

SpecMatch == InitMatch /\ [][NextCSV]_vars

(***************************************************************************)
(* The aggregation run twice on the same rows: App right after             *)
(* handleFileUpload was called twice for the same file of DataPool, until  *)
(* Papa.parse has called back for both.                                    *)
(***************************************************************************)
InitRerun ==
  /\ ThemeLoaded("null", FALSE)
  /\ consumptionData = <<>>
  /\ releaseNotes = MOCK_RELEASES
  /\ insights = <<>>
  /\ isLoading = TRUE
  /\ error = "null"
  /\ analysisStep = "parsing"
  /\ parses \in { One([data |-> d, notes |-> MOCK_RELEASES])
                    (+) One([data |-> d, notes |-> MOCK_RELEASES]) : d \in DataPool }
  /\ runs = EmptyBag
  /\ timers = 0
  /\ emails = EmptyBag
  /\ generatedEmail = NoEmail
  /\ inheritedWrites = {}
  /\ lastEvent = Event("init", <<>>)

SpecRerun == InitRerun /\ [][NextCSV]_vars

(***************************************************************************)
(* Vocabulary of the properties.  These definitions state what the         *)
(* specification says, independently of how processCSVData computes it.    *)
(***************************************************************************)
\* the state right after processCSVData handled a non-empty parse result
AfterCSV == lastEvent.kind = "csv" /\ lastEvent.rows # <<>>

Input == lastEvent.rows

\* "position 0 of the input sequence carries the header sentinel"
HeaderFirst(rows) ==
  rows # <<>> /\ Len(rows[1]) > 0 /\ rows[1][1] = HeaderSentinel

\* the positions of the rows that are data: all but a header at position 1
DataIdx(rows) == { j \in 1..Len(rows) : j > 1 \/ ~HeaderFirst(rows) }

Blank(s) == \A k \in 1..Len(s) : s[k] = " "

\* per-row validation of the specification: at least 9 cells, and the
\* description cell non-empty after trimming
ValidRow(row) == Len(row) >= 9 /\ ~Blank(row[3])

ValidIdx(rows) == { j \in DataIdx(rows) : ValidRow(rows[j]) }

\* the rows processCSVData does not skip: at least 9 cells, description not ""
AcceptedIdx(rows) == { j \in DataIdx(rows) : Len(rows[j]) >= 9 /\ rows[j][3] # <<>> }

\* s without its leading and trailing blanks
Trimmed(s) ==
  IF Blank(s) THEN <<>>
  ELSE LET solid == { k \in 1..Len(s) : s[k] # " " }
           lo == CHOOSE k \in solid : \A m \in solid : k <= m
           hi == CHOOSE k \in solid : \A m \in solid : k >= m
       IN  [ k \in 1..(hi - lo + 1) |-> s[lo + k - 1] ]

SepAt(s, k) == k + 2 <= Len(s) /\ s[k] = " " /\ s[k + 1] = "-" /\ s[k + 2] = " "
HasSep(s) == \E k \in 1..Len(s) : SepAt(s, k)
FirstSep(s) == CHOOSE k \in 1..Len(s) : SepAt(s, k) /\ \A m \in 1..(k - 1) : ~SepAt(s, m)

\* the id and the description the specification extracts from a cell
IdOf(s) ==
  IF HasSep(s) THEN Trimmed([ k \in 1..(FirstSep(s) - 1) |-> s[k] ]) ELSE Trimmed(s)
NameOf(s) ==
  IF HasSep(s)
  THEN Trimmed([ k \in 1..(Len(s) - FirstSep(s) - 2) |-> s[FirstSep(s) + 2 + k] ])
  ELSE Trimmed(s)

RowId(row) == IdOf(row[3])

RECURSIVE SumSeq(_)
SumSeq(ns) ==
  IF ns = <<>> THEN Zero
  ELSE Add(SumSeq([ k \in 1..(Len(ns) - 1) |-> ns[k] ]), ns[Len(ns)])

\* the sum, in input order, of the parsed cell at 1-based position col over
\* the rows of idx whose id is sku
SumFor(rows, idx, sku, col) ==
  SumSeq([ j \in 1..Len(rows) |->
            IF j \in idx /\ RowId(rows[j]) = sku THEN ParseOrZero(rows[j][col])
            ELSE Zero ])

\* a >= b as JavaScript evaluates it: false whenever a or b is NaN.
Geq(a, b) ==
  IF a.k = "nan" \/ b.k = "nan" THEN FALSE
  ELSE IF a.k = "inf" THEN (a.v = 1 \/ (b.k = "inf" /\ b.v = -1))
  ELSE IF b.k = "inf" THEN b.v = -1
  ELSE a.v >= b.v

Skus == { consumptionData[i].sku : i \in 1..Len(consumptionData) }

\* the inventory of a parse result; an empty input gives an empty inventory
InventoryOf(data) == IF data = <<>> THEN <<>> ELSE aggregatedData(data)

\* the inventory when every row of rows is processed as data
InventoryOfRows(rows) == SortByCost(ObjectValues(FoldRows(<<>>, rows)))

\* a < b as JavaScript evaluates it: false whenever a or b is NaN
Lt(a, b) ==
  IF a.k = "nan" \/ b.k = "nan" THEN FALSE
  ELSE IF a.k = "inf" THEN (a.v = -1 /\ ~(b.k = "inf" /\ b.v = -1))
  ELSE IF b.k = "inf" THEN b.v = 1
  ELSE a.v < b.v

\* the items of a list, each with the number of times it occurs
ItemBag(items) ==
  [ x \in { items[i] : i \in 1..Len(items) } |->
      Cardinality({ i \in 1..Len(items) : items[i] = x }) ]

\* s without its element at position i
RemoveAt(s, i) == SubSeq(s, 1, i - 1) \o SubSeq(s, i + 1, Len(s))

\* the input without its last row
AllButLast(rows) == SubSeq(rows, 1, Len(rows) - 1)

\* a note's matchScore is strictly greater than 50
Above50(note) == "matchScore" \in DOMAIN note /\ note.matchScore > 50

Min(a, b) == IF a < b THEN a ELSE b

(***************************************************************************)
(* Properties.                                                             *)
(***************************************************************************)
\* C1: the inventory holds exactly one item per distinct id extracted from
\* the valid rows: no two items share a sku, every id of a valid row is the
\* sku of an item, and no other sku appears.
C1_OneItemPerId ==
  lastEvent.kind = "csv" =>
    /\ \A i, j \in 1..Len(consumptionData) :
         i # j => consumptionData[i].sku # consumptionData[j].sku
    /\ Skus = { RowId(Input[j]) : j \in ValidIdx(Input) }

\* C2: every item's usageAmount is the sum of the parsed quantity cells, and
\* its cost the sum of the parsed amount cells, of the valid rows with its id.
C2_SumsOverValidRows ==
  AfterCSV =>
    \A i \in 1..Len(consumptionData) :
      /\ consumptionData[i].usageAmount =
           SumFor(Input, ValidIdx(Input), consumptionData[i].sku, 5)
      /\ consumptionData[i].cost =
           SumFor(Input, ValidIdx(Input), consumptionData[i].sku, 9)

\* C3: the inventory is ordered by cost non-increasing: each item's cost is
\* greater than or equal to the cost of the item after it.
C3_SortedByCost ==
  AfterCSV =>
    \A i \in 1..(Len(consumptionData) - 1) :
      Geq(consumptionData[i].cost, consumptionData[i + 1].cost)

\* C4 as stated: a row with fewer than 9 cells, at any position, sets no
\* error and leaves the inventory as if the row had not been in the input.
C4_ShortRowAnywhere ==
  AfterCSV =>
    \A j \in 1..Len(Input) :
      Len(Input[j]) < 9 =>
        /\ error = "null"
        /\ consumptionData = InventoryOf(RemoveAt(Input, j))

\* C4 amended: a row with fewer than 9 cells that is not the first row of the
\* input sets no error and leaves the inventory as if it had not been in the
\* input.
C4_ShortRowAfterFirst ==
  AfterCSV =>
    \A j \in 2..Len(Input) :
      Len(Input[j]) < 9 =>
        /\ error = "null"
        /\ consumptionData = InventoryOf(RemoveAt(Input, j))

\* C4 witness: a row one cell short of 9, carrying a description, follows
\* rows that made items.
C4_Witness ==
  /\ AfterCSV
  /\ consumptionData # <<>>
  /\ \E j \in 2..Len(Input) : Input[j] = EightCells

\* C5: a row whose description cell is empty or all blanks creates no item
\* and adds nothing to any item: the inventory is that of the other rows.
C5_BlankDescriptionSkipped ==
  AfterCSV =>
    \A j \in DataIdx(Input) :
      (Len(Input[j]) >= 9 /\ Blank(Input[j][3]) /\ (j > 1 \/ Len(Input) = 1)) =>
        consumptionData = InventoryOf(RemoveAt(Input, j))

\* C6: a valid row with a non-numeric quantity or amount cell is not dropped:
\* an item with its id exists, with its description and unit if the id was
\* new, and the row counts 0 for that cell in the item's sums.
C6_NonNumericCountsZero ==
  AfterCSV =>
    \A j \in ValidIdx(Input) :
      (parseFloat(Input[j][5]).k = "nan" \/ parseFloat(Input[j][9]).k = "nan") =>
        \E i \in 1..Len(consumptionData) :
          /\ consumptionData[i].sku = RowId(Input[j])
          /\ (\A m \in ValidIdx(Input) : RowId(Input[m]) = RowId(Input[j]) => m >= j)
               => /\ consumptionData[i].productName = NameOf(Input[j][3])
                  /\ consumptionData[i].unit = Input[j][4]
          /\ consumptionData[i].usageAmount =
               SumFor(Input, ValidIdx(Input), RowId(Input[j]), 5)
          /\ consumptionData[i].cost =
               SumFor(Input, ValidIdx(Input), RowId(Input[j]), 9)

\* C7: the first row is discarded exactly when its first cell is the header
\* sentinel; every other row, a later row with that first cell included, is
\* processed as data.
C7_HeaderOnlyAtFirstRow ==
  AfterCSV =>
    consumptionData =
      InventoryOfRows([ k \in 1..Cardinality(DataIdx(Input)) |->
                          Input[k + Len(Input) - Cardinality(DataIdx(Input))] ])

\* C7 witness: the first row is a header and is gone, a later row with the
\* same first cell made an item.
C7_Witness ==
  /\ AfterCSV
  /\ HeaderFirst(Input)
  /\ \E j \in 2..Len(Input) : Input[j] = HeaderRow
  /\ <<"Product">> \in Skus
  /\ Len(consumptionData) > 1

\* C8: every item's sku is the trimmed text before the first " - " of the
\* description cell of a processed row, and its productName the trimmed text
\* after it; without a separator both are the whole trimmed cell.
C8_SplitAtFirstSeparator ==
  AfterCSV =>
    \A i \in 1..Len(consumptionData) :
      \E j \in AcceptedIdx(Input) :
        /\ consumptionData[i].sku = IdOf(Input[j][3])
        /\ consumptionData[i].productName = NameOf(Input[j][3])

\* C8 witness: one item comes from a cell with two separators, one from a
\* cell with none.
C8_Witness ==
  /\ AfterCSV
  /\ \E i \in 1..Len(consumptionData) :
       /\ consumptionData[i].sku = <<"B1">>
       /\ consumptionData[i].productName = <<"Compute", " ", "-", " ", "E4">>
  /\ \E i \in 1..Len(consumptionData) :
       /\ consumptionData[i].sku = <<"7">>
       /\ consumptionData[i].productName = <<"7">>

\* C9: every item's productName and unit are those of the first valid row
\* with its id, in input order.
C9_FirstRowNamesItem ==
  AfterCSV =>
    \A i \in 1..Len(consumptionData) :
      LET same == { j \in ValidIdx(Input) : RowId(Input[j]) = consumptionData[i].sku }
      IN  \A j \in same :
            (\A m \in same : j <= m) =>
              /\ consumptionData[i].productName = NameOf(Input[j][3])
              /\ consumptionData[i].unit = Input[j][4]

\* C10: after processCSVData handled a parse result of zero rows,
\* consumptionData is the empty list.
C10_EmptyInputEmptyInventory ==
  lastEvent = Event("csv", <<>>) => consumptionData = <<>>

\* C11: right after a completed upload consumptionData is the inventory of
\* that upload's rows, and right after a sample load it is the sample
\* portfolio: nothing of an earlier upload or sample load is left in it.
C11_SnapshotOfOwnInput ==
  /\ lastEvent.kind = "csv" => consumptionData = InventoryOf(Input)
  /\ lastEvent.kind = "sample" => consumptionData = SAMPLE_DATA

\* C12: the aggregation writes nothing outside the inventory it builds: after
\* processCSVData no object other than the items of the inventory has got a
\* usageAmount or a cost written.
C12_NothingWrittenOutside ==
  lastEvent.kind = "csv" => inheritedWrites = {}

C15_StoredInventoryImmutable ==
  [][ consumptionData' # consumptionData => lastEvent'.kind \in {"csv", "sample"} ]_vars

\* C15 witness: an email preview was answered while an inventory is stored.
C15_Witness ==
  /\ lastEvent.kind = "email"
  /\ generatedEmail # NoEmail
  /\ consumptionData # <<>>

\* C16: topSKUs has min(5, n) items, all of the inventory, ordered by cost
\* non-increasing, and every item left out costs no more than any item shown.
C16_TopFiveByCost ==
  LET top == topSKUs(consumptionData)
      leftOut == ItemBag(consumptionData) (-) ItemBag(top)
  IN  /\ Len(top) = Min(5, Len(consumptionData))
      /\ ItemBag(top) \sqsubseteq ItemBag(consumptionData)
      /\ \A i \in 1..(Len(top) - 1) : Geq(top[i].cost, top[i + 1].cost)
      /\ \A x \in BagToSet(leftOut) : \A i \in 1..Len(top) : Geq(top[i].cost, x.cost)

\* C17: every release note in state is marked relevant exactly when its
\* matchScore is strictly greater than 50; so Live Signals shows the first
\* three of the notes 'Roadmap Matches' counts, and a preview just requested
\* passes exactly the counted notes to the email digest.
C17_RelevantIffAbove50 ==
  /\ \A i \in 1..Len(releaseNotes) : releaseNotes[i].isRelevant <=> Above50(releaseNotes[i])
  /\ LiveSignals(releaseNotes) = Take(RoadmapMatches(releaseNotes), 3)
  /\ lastEvent.kind = "preview" =>
       \E req \in BagToSet(emails) : req.notes = RoadmapMatches(releaseNotes)

\* C17 witness: a preview was just requested while the state holds matched
\* notes on both sides of the threshold: one at 50, one above, one without a
\* matchScore.
C17_Witness ==
  /\ lastEvent.kind = "preview"
  /\ \E i \in 1..Len(releaseNotes) :
       "matchScore" \in DOMAIN releaseNotes[i] /\ releaseNotes[i].matchScore = 50
  /\ \E i \in 1..Len(releaseNotes) : Above50(releaseNotes[i]) /\ releaseNotes[i].id # <<"1">>
  /\ \E i \in 1..Len(releaseNotes) : "matchScore" \notin DOMAIN releaseNotes[i]

\* C18: Live Signals lists at most 3 notes, all relevant, and no relevant
\* note it leaves out has a later date than a note it shows.
C18_MostRecentSignals ==
  LET shown == LiveSignals(releaseNotes)
      relevant == { i \in 1..Len(releaseNotes) : releaseNotes[i].isRelevant }
      leftOut == { i \in relevant :
                    Cardinality({ m \in relevant : m < i }) >= Len(shown) }
  IN  /\ Len(shown) <= 3
      /\ \A k \in 1..Len(shown) : shown[k].isRelevant
      /\ \A i \in leftOut : \A k \in 1..Len(shown) : releaseNotes[i].date <= shown[k].date

\* C19: the step that completes an upload of at least one row sets
\* consumptionData to the aggregated inventory and only then starts the
\* analysis, whose first call is still unanswered; and no answer or failure of
\* an AI call changes consumptionData afterwards.
C19_InventoryBeforeAnalysis ==
  [][ /\ (lastEvent'.kind = "csv" /\ lastEvent'.rows # <<>>) =>
           /\ consumptionData' = aggregatedData(lastEvent'.rows)
           /\ \E job \in BagToSet(parses) :
                runs' = runs (+) One([pc |-> "search", skus |-> consumptionData',
                                      notes |-> job.notes])
      /\ lastEvent'.kind \in {"search", "searchFailed", "insights", "timer"} =>
           consumptionData' = consumptionData ]_vars

\* C19 witness: an upload with rows was completed, its inventory is stored
\* and its analysis waits for the first answer.
C19_Witness ==
  /\ AfterCSV
  /\ consumptionData # <<>>
  /\ \E run \in BagToSet(runs) : run.pc = "search" /\ run.skus = consumptionData

\* C20: when the search or matching call of a run fails, the run goes on to
\* its insights step and releaseNotes after the failed step are the
\* releaseNotes of immediately before it.
C20_FailedSearchKeepsNotes ==
  [][ lastEvent'.kind = "searchFailed" =>
        /\ releaseNotes' = releaseNotes
        /\ analysisStep' = "insights" ]_vars

\* C21: the stored 'horizon-theme' value names the current mode; a reload
\* started in the mode the stored value named; and after an even number of
\* toggles the mode is the one the page started in, after an odd number the
\* other one.
C21_ThemePersisted ==
  /\ storedTheme = (IF isDarkMode THEN "dark" ELSE "light")
  /\ darkClass = isDarkMode
  /\ reloads > 0 => (loadedFrom \in {"dark", "light"} /\ loadedMode = (loadedFrom = "dark"))
  /\ isDarkMode = (IF toggles % 2 = 0 THEN loadedMode ELSE ~loadedMode)

\* C21 witness: the page was reloaded into light mode against a dark system
\* preference and the theme was toggled twice since.
C21_Witness ==
  /\ reloads > 0
  /\ toggles = 2
  /\ ~isDarkMode
  /\ prefersDark

\* C22: right after an AI call of an analysis run failed, the error is
\* "Intelligence sync failed", isLoading is false and analysisStep is 'idle'.
C22_AIFailureRecorded ==
  lastEvent.kind = "searchFailed" =>
    /\ error = "Intelligence sync failed"
    /\ isLoading = FALSE
    /\ analysisStep = "idle"

\* C23: for every analysis run the SKUs of the prompts are at most 10 items
\* of the inventory the run analyses, and every item left out costs no more
\* than any item taken.
C23_TopTenByCost ==
  \A run \in BagToSet(runs) :
    LET taken == topSkus(run.skus)
        leftOut == ItemBag(run.skus) (-) ItemBag(taken)
    IN  /\ Len(taken) <= 10
        /\ ItemBag(taken) \sqsubseteq ItemBag(run.skus)
        /\ \A x \in BagToSet(leftOut) : \A i \in 1..Len(taken) : Geq(taken[i].cost, x.cost)

\* the request of a pending preview
EmailRequest(req) == EmailPrompt(req.notes, CustomerName, req.insights)

\* C24: the request generateEmailDigest builds depends on the relevant notes:
\* for the same customer and insights, other relevant notes give another
\* request.
C24_RequestDependsOnNotes ==
  \A req \in BagToSet(emails) :
    \A other \in { <<>>, RelevantNotes(MOCK_RELEASES) } \cup { RelevantNotes(LiveNotes(r)) : r \in StructResponses } :
      other # req.notes =>
        EmailPrompt(other, CustomerName, req.insights) # EmailRequest(req)

\* C25: once every parse, AI call and timer has completed, analysisStep is
\* 'idle' and isLoading is false.
C25_SettlesIdle ==
  Pending = 0 => (analysisStep = "idle" /\ isLoading = FALSE)

\* C26: at most one analysis run is in flight.
C26_OneRunInFlight == BagCardinality(runs) <= 1

\* C27: while analysisStep is 'idle' no upload is being parsed and no run is
\* in flight.
C27_IdleMeansQuiet ==
  analysisStep = "idle" => (parses = EmptyBag /\ runs = EmptyBag)

\* C28: the run whose end leaves no run in flight is the run that was started
\* for the inventory in consumptionData.
C28_LastRunIsCurrent ==
  [][ (runs # EmptyBag /\ runs' = EmptyBag) =>
        \A run \in BagToSet(runs) : run.skus = consumptionData' ]_vars

====
